---- MODULE Spec2Model ----
(***************************************************************************)
(* Model of backend/main.py: the Medical Image Analysis API.               *)
(*                                                                         *)
(* Text (a reply of the generative model, a chat message) is a sequence of *)
(* tokens; a token stands for a run of characters whose only properties    *)
(* the code looks at are modelled: being a brace, a newline, blank,        *)
(* a JSON member, a number, a word of a given class.  JSON values are      *)
(* tagged records.  Fractions are fixed-point numbers: 1.0 is Unit.        *)
(***************************************************************************)
EXTENDS Integers, Sequences, FiniteSets, TLC

Hundred == 100

Unit == Hundred * Hundred

DefaultConfidence == 75

ReplyPrefixLen == 500

MaxUploadBytes == 10 * 1024 * 1024

Min(S) == CHOOSE x \in S : \A y \in S : x <= y

Max(S) == CHOOSE x \in S : \A y \in S : x >= y

(***************************************************************************)
(* JSON / Python values.  t is the type tag; s a string literal, n a       *)
(* number (fixed point for "num", 0/1 for "bool"), l the elements of a     *)
(* list, x the tokens of a string cut out of a reply.                      *)
(***************************************************************************)
Val(t, s, n, l, x) == [t |-> t, s |-> s, n |-> n, l |-> l, x |-> x]

Str(s) == Val("str", s, 0, <<>>, <<>>)

Num(n) == Val("num", "", n, <<>>, <<>>)

Null == Val("null", "", 0, <<>>, <<>>)

Bool(b) == Val("bool", "", IF b THEN 1 ELSE 0, <<>>, <<>>)

List(l) == Val("list", "", 0, l, <<>>)

Text(x) == Val("str", "", 0, <<>>, x)

(***************************************************************************)
(* Tokens.  k is the kind, w the word class or the member's key, v the     *)
(* member's value or the number.                                           *)
(***************************************************************************)
Tok(k, w, v) == [k |-> k, w |-> w, v |-> v]

NL == Tok("nl", "", Null)

SP == Tok("sp", "", Null)

LB == Tok("lbrace", "", Null)

RB == Tok("rbrace", "", Null)

COLON == Tok("colon", "", Null)

PCT == Tok("pct", "", Null)

INT(n) == Tok("int", "", Num(n))

W(w) == Tok("word", w, Null)

F(key, v) == Tok("field", key, v)

\* str.lower() on the words the model knows in upper case
LowerWord(w) ==
    CASE w = "Confidence" -> "confidence"
      [] w = "Score" -> "score"
      [] w = "SHOWS" -> "shows"
      [] w = "Headache" -> "headache"
      [] w = "PNG" -> "png"
      [] OTHER -> w

\* string literals with a code point in U+0600..U+06FF
ArabicLiterals == {"ar_diagnosis", "ar_word", "ar_answer"}

\* string literals containing one of 'finding', 'observed', 'shows', 'indicates'
FindingLiterals == {"shows", "finding", "observed", "indicates", "No acute findings"}

HasArabicChar(tok) ==
    \/ tok.k = "word" /\ tok.w \in ArabicLiterals
    \/ tok.k = "field" /\ tok.v.t = "str" /\ tok.v.s \in ArabicLiterals

HasFindingKeyword(tok) ==
    \/ tok.k = "word" /\ LowerWord(tok.w) \in FindingLiterals
    \/ tok.k = "field" /\ (tok.w = "findings"
                           \/ (tok.v.t = "str" /\ tok.v.s \in FindingLiterals))

(***************************************************************************)
(* parse_json_response                                                     *)
(***************************************************************************)
\* re.search(r'\{.*\}', text, re.DOTALL): first '{' to last '}'
BraceSpan(text) ==
    LET ls == {i \in 1..Len(text) : text[i].k = "lbrace"}
        rs == {i \in 1..Len(text) : text[i].k = "rbrace"}
    IN  IF ls = {} \/ rs = {} THEN <<>>
        ELSE IF Max(rs) > Min(ls) THEN SubSeq(text, Min(ls), Max(rs))
        ELSE <<>>

\* json.loads of a span that starts with '{' and ends with '}': it decodes
\* iff only members and white space lie between the braces; a repeated key
\* keeps its last value.
json_loads(span) ==
    LET inner == 2..(Len(span) - 1)
        valid == Len(span) >= 2
                 /\ \A p \in inner : span[p].k \in {"field", "sp", "nl"}
        fp    == {p \in inner : span[p].k = "field"}
        keys  == {span[p].w : p \in fp}
    IN  [ok |-> valid,
         d  |-> IF valid
                THEN [key \in keys |->
                        span[Max({p \in fp : span[p].w = key})].v]
                ELSE [key \in {} |-> Null]]

NoDict == [key \in {} |-> Null]

\* some = FALSE is Python's None
parse_json_response(text) ==
    LET span == BraceSpan(text)
    IN  IF span # <<>> /\ json_loads(span).ok
        THEN [some |-> TRUE, d |-> json_loads(span).d]
        ELSE [some |-> FALSE, d |-> NoDict]

\* dict.get(key, default)
Get(d, key, default) == IF key \in DOMAIN d THEN d[key] ELSE default

(***************************************************************************)
(* extract_confidence_score                                                *)
(***************************************************************************)
RECURSIVE SkipWhile(_, _, _)
SkipWhile(text, i, kinds) ==
    IF i <= Len(text) /\ text[i].k \in kinds
    THEN SkipWhile(text, i + 1, kinds)
    ELSE i

IsWord(text, i, words) ==
    i <= Len(text) /\ text[i].k = "word" /\ LowerWord(text[i].w) \in words

IsKind(text, i, kind) == i <= Len(text) /\ text[i].k = kind

\* r'confidence[:\s]+(\d+)%' matched at token i; the number's position
Pattern1At(text, i) ==
    LET j == SkipWhile(text, i + 1, {"colon", "sp", "nl"})
    IN  IF IsWord(text, i, {"confidence"}) /\ j > i + 1
           /\ IsKind(text, j, "int") /\ IsKind(text, j + 1, "pct")
        THEN j ELSE 0

\* r'(\d+)%\s+confiden'
Pattern2At(text, i) ==
    LET j == SkipWhile(text, i + 2, {"sp", "nl"})
    IN  IF IsKind(text, i, "int") /\ IsKind(text, i + 1, "pct") /\ j > i + 2
           /\ IsWord(text, j, {"confidence", "confident"})
        THEN i ELSE 0

\* r'score[:\s]+(\d+)'
Pattern3At(text, i) ==
    LET j == SkipWhile(text, i + 1, {"colon", "sp", "nl"})
    IN  IF IsWord(text, i, {"score"}) /\ j > i + 1 /\ IsKind(text, j, "int")
        THEN j ELSE 0

\* re.search: the leftmost match; 0 when there is none
Search1(text) ==
    LET m == {i \in 1..Len(text) : Pattern1At(text, i) # 0}
    IN  IF m = {} THEN 0 ELSE Pattern1At(text, Min(m))

Search2(text) ==
    LET m == {i \in 1..Len(text) : Pattern2At(text, i) # 0}
    IN  IF m = {} THEN 0 ELSE Pattern2At(text, Min(m))

Search3(text) ==
    LET m == {i \in 1..Len(text) : Pattern3At(text, i) # 0}
    IN  IF m = {} THEN 0 ELSE Pattern3At(text, Min(m))

\* the patterns tried in another order: score first
extract_confidence_score_reordered(text) ==
    IF Search3(text) # 0 THEN (text[Search3(text)].v.n * Unit) \div Hundred
    ELSE IF Search1(text) # 0 THEN (text[Search1(text)].v.n * Unit) \div Hundred
    ELSE IF Search2(text) # 0 THEN (text[Search2(text)].v.n * Unit) \div Hundred
    ELSE (DefaultConfidence * Unit) \div Hundred

\* float(match.group(1)) / 100, in fixed point
extract_confidence_score(text) ==
    IF Search1(text) # 0 THEN (text[Search1(text)].v.n * Unit) \div Hundred
    ELSE IF Search2(text) # 0 THEN (text[Search2(text)].v.n * Unit) \div Hundred
    ELSE IF Search3(text) # 0 THEN (text[Search3(text)].v.n * Unit) \div Hundred
    ELSE (DefaultConfidence * Unit) \div Hundred

(***************************************************************************)
(* analyze_medical_image, from the reply to the returned dict              *)
(***************************************************************************)
\* text.split('\n')
RECURSIVE SplitLines(_)
SplitLines(text) ==
    LET nls == {i \in 1..Len(text) : text[i].k = "nl"}
    IN  IF nls = {} THEN <<text>>
        ELSE <<SubSeq(text, 1, Min(nls) - 1)>>
             \o SplitLines(SubSeq(text, Min(nls) + 1, Len(text)))

\* line.strip()
Strip(line) ==
    LET ns == {i \in 1..Len(line) : line[i].k # "sp"}
    IN  IF ns = {} THEN <<>> ELSE SubSeq(line, Min(ns), Max(ns))

\* ' '.join(lines)
RECURSIVE Join(_)
Join(lines) ==
    IF lines = <<>> THEN <<>>
    ELSE IF Len(lines) = 1 THEN lines[1]
    ELSE lines[1] \o <<SP>> \o Join(Tail(lines))

\* text[:500]
Prefix(text) ==
    SubSeq(text, 1, IF Len(text) < ReplyPrefixLen THEN Len(text) ELSE ReplyPrefixLen)

\* one pass of the loop without the arabic_started test: a later line in
\* Latin script goes back to the English bucket
LineStepNoLatch(acc, rawline) ==
    LET line == Strip(rawline)
    IN  IF line = <<>> THEN acc
        ELSE IF \E i \in 1..Len(line) : HasArabicChar(line[i])
        THEN [acc EXCEPT !.started = TRUE, !.ar = Append(@, line)]
        ELSE IF line[1].k # "lbrace"
        THEN [acc EXCEPT !.en = Append(@, line),
                         !.findings =
                            IF \E i \in 1..Len(line) : HasFindingKeyword(line[i])
                            THEN Append(@, Text(line)) ELSE @]
        ELSE acc

\* one pass of the loop over the lines; acc holds the three buckets and
\* the arabic_started flag
LineStep(acc, rawline) ==
    LET line == Strip(rawline)
    IN  IF line = <<>> THEN acc
        ELSE IF \E i \in 1..Len(line) : HasArabicChar(line[i])
        THEN [acc EXCEPT !.started = TRUE, !.ar = Append(@, line)]
        ELSE IF ~acc.started /\ line[1].k # "lbrace"
        THEN [acc EXCEPT !.en = Append(@, line),
                         !.findings =
                            IF \E i \in 1..Len(line) : HasFindingKeyword(line[i])
                            THEN Append(@, Text(line)) ELSE @]
        ELSE acc

RECURSIVE LineLoop(_, _)
LineLoop(acc, lines) ==
    IF lines = <<>> THEN acc
    ELSE LineLoop(LineStep(acc, Head(lines)), Tail(lines))

Buckets(text) ==
    LineLoop([en |-> <<>>, ar |-> <<>>, findings |-> <<>>, started |-> FALSE],
             SplitLines(text))

Raised == [ok |-> FALSE, rec |-> <<>>]

Returned(rec) == [ok |-> TRUE, rec |-> rec]

\* the structured path with the confidence clamped to 1.0
StructuredResultClamped(d) ==
    LET confidence == Get(d, "confidence_score", Num(DefaultConfidence * Unit))
        scaled == IF confidence.t = "num" /\ confidence.n > Unit
                  THEN confidence.n \div Hundred ELSE confidence.n
    IN  IF confidence.t \notin {"num", "bool"} THEN Raised
        ELSE Returned(
          [image_type |-> Get(d, "image_type", Str("Medical Image")),
           diagnosis_english |-> Get(d, "diagnosis_english", Str("Analysis completed")),
           diagnosis_arabic |-> Get(d, "diagnosis_arabic", Str("ar_analysis_done")),
           confidence_score |->
               IF confidence.t = "num"
               THEN Num(IF scaled > Unit THEN Unit ELSE scaled)
               ELSE confidence,
           findings |-> Get(d, "findings", List(<<Str("Image analyzed")>>)),
           recommendations |-> Get(d, "recommendations",
                                   Str("Consult a healthcare professional"))])

\* lines 347-359: the structured path.  'confidence > 1' raises TypeError
\* on a value that is neither a number nor a bool.
StructuredResult(d) ==
    LET confidence == Get(d, "confidence_score", Num(DefaultConfidence * Unit))
    IN  IF confidence.t \notin {"num", "bool"} THEN Raised
        ELSE Returned(
          [image_type |-> Get(d, "image_type", Str("Medical Image")),
           diagnosis_english |-> Get(d, "diagnosis_english", Str("Analysis completed")),
           diagnosis_arabic |-> Get(d, "diagnosis_arabic", Str("ar_analysis_done")),
           confidence_score |->
               IF confidence.t = "num" /\ confidence.n > Unit
               THEN Num(confidence.n \div Hundred)
               ELSE confidence,
           findings |-> Get(d, "findings", List(<<Str("Image analyzed")>>)),
           recommendations |-> Get(d, "recommendations",
                                   Str("Consult a healthcare professional"))])

\* the fallback without the placeholder for findings
FallbackResultNoPlaceholder(text) ==
    LET b == Buckets(text)
    IN  Returned(
          [image_type |-> Str("Medical Image"),
           diagnosis_english |-> IF b.en # <<>> THEN Text(Join(b.en))
                                 ELSE Text(Prefix(text)),
           diagnosis_arabic |-> IF b.ar # <<>> THEN Text(Join(b.ar))
                                ELSE Str("ar_consult_specialist"),
           confidence_score |-> Num(extract_confidence_score(text)),
           findings |-> List(b.findings),
           recommendations |-> Str("Please consult with a qualified healthcare professional for proper diagnosis and treatment.")])

\* lines 360-387: the line-by-line fallback
FallbackResult(text) ==
    LET b == Buckets(text)
    IN  Returned(
          [image_type |-> Str("Medical Image"),
           diagnosis_english |-> IF b.en # <<>> THEN Text(Join(b.en))
                                 ELSE Text(Prefix(text)),
           diagnosis_arabic |-> IF b.ar # <<>> THEN Text(Join(b.ar))
                                ELSE Str("ar_consult_specialist"),
           confidence_score |-> Num(extract_confidence_score(text)),
           findings |-> IF b.findings # <<>> THEN List(b.findings)
                        ELSE List(<<Str("Analysis completed")>>),
           recommendations |-> Str("Please consult with a qualified healthcare professional for proper diagnosis and treatment.")])

\* 'if parsed_data:' is false for None and for the empty dict
AnalysisOf(text) ==
    LET parsed == parse_json_response(text)
    IN  IF parsed.some /\ DOMAIN parsed.d # {}
        THEN StructuredResult(parsed.d)
        ELSE FallbackResult(text)

(***************************************************************************)
(* Response models (pydantic).  The replies the model draws never hold a   *)
(* value pydantic would coerce (a numeric string for a float, a number for *)
(* a string), so validation is a comparison of type tags.                  *)
(***************************************************************************)
IsStr(v) == v.t = "str"

IsFloat(v) == v.t = "num"

IsBool(v) == v.t = "bool"

IsOptStr(v) == v.t \in {"str", "null"}

IsStrList(v) == v.t = "list" /\ \A i \in 1..Len(v.l) : IsStr(v.l[i])

\* DiagnosisResponse(**result), and the same six fields of
\* StoredDiagnosisResponse
ValidDiagnosis(rec) ==
    /\ IsStr(rec.diagnosis_english)
    /\ IsStr(rec.diagnosis_arabic)
    /\ IsFloat(rec.confidence_score)
    /\ IsStrList(rec.findings)
    /\ IsOptStr(rec.recommendations)
    /\ IsStr(rec.image_type)

ChatKeys == {"response_english", "response_arabic", "is_medical", "confidence_score"}

\* ChatResponse(...) over the four values read from ai_response
ValidChat(d) ==
    /\ IsStr(d["response_english"])
    /\ IsStr(d["response_arabic"])
    /\ IsBool(d["is_medical"])
    /\ IsFloat(d["confidence_score"])

\* ChatHistoryResponse over a stored exchange
ValidExchange(doc) ==
    /\ IsStr(doc.ai_response_english)
    /\ IsStr(doc.ai_response_arabic)
    /\ IsBool(doc.is_medical)
    /\ IsFloat(doc.confidence_score)

(***************************************************************************)
(* Chat: is_medical_question and generate_medical_chat_response            *)
(***************************************************************************)
\* word classes that contain one of medical_keywords as a substring once
\* lower-cased ('research' contains 'ear')
MedicalWords == {"headache", "fever", "research", "ar_alam"}

is_medical_question(question) ==
    \E i \in 1..Len(question) :
        question[i].k = "word" /\ LowerWord(question[i].w) \in MedicalWords

\* lines 200-206: the answer given without a call of the model
Refusal ==
    [response_english |-> Str("I apologize, but I'm designed specifically to answer medical and health-related questions only."),
     response_arabic |-> Str("ar_refusal"),
     is_medical |-> Bool(FALSE),
     confidence_score |-> Num(100 * Unit)]

\* the gate left out: every message is sent to the model
ShortCircuitsNever(user_message) == FALSE

\* line 200
ShortCircuits(user_message) == ~is_medical_question(user_message)

\* lines 220-235: the dict made of the model's reply
ChatResponseOf(text) ==
    LET span == BraceSpan(text)
    IN  IF span # <<>> /\ json_loads(span).ok
        THEN json_loads(span).d
        ELSE [response_english |->
                 Text(<<W("I've analyzed your medical question.")>> \o Prefix(text)
                      \o <<W("Disclaimer")>>),
              response_arabic |-> Str("ar_chat_fallback"),
              is_medical |-> Bool(TRUE),
              confidence_score |-> Num(DefaultConfidence * Unit)]

\* line 637: not message, or message.strip() == ""
IsBlank(message) == \A i \in 1..Len(message) : message[i].k \in {"sp", "nl"}

(***************************************************************************)
(* Upload validation of /analyze and /analyze-and-store                    *)
(***************************************************************************)
allowed_extensions == {"jpg", "jpeg", "png", "gif", "bmp", "tiff", "webp"}

\* file.filename.split('.')[-1].lower(); parts is the name split at '.'
file_extension(file) == LowerWord(file.parts[Len(file.parts)])

\* the size check left out
UploadErrorNoSizeCheck(file) ==
    IF file_extension(file) \notin allowed_extensions THEN "Invalid file type"
    ELSE ""

\* lines 471-481 (and 511-521): the detail of the 400, "" when the file passes
UploadError(file) ==
    IF file_extension(file) \notin allowed_extensions THEN "Invalid file type"
    ELSE IF file.size > MaxUploadBytes THEN "File size exceeds 10MB limit"
    ELSE ""

(***************************************************************************)
(* The server.  Each slot of Req is one request being handled by the       *)
(* server's single event loop (uvicorn.run, line 727).  An 'async def'     *)
(* handler keeps the loop from one await of real I/O to the next.          *)
(***************************************************************************)
MaxRequests == 2

Req == {"a", "b"}

NoSlot == "none"

\* Python's None for the optional strings of a request
None == ""

\* ObjectId strings are numbered in the order they are generated; NoId is
\* an absent id, BadId a string ObjectId() rejects, CallerSession a session
\* name a caller made up, EmptySession the empty string given as a session.
NoId == 0

BadId == 0 - 1

CallerSession == 0 - 2

EmptySession == 0 - 3

\* 'not session_id': true of None and of the empty string
NotSession(session_id) == session_id \in {NoId, EmptySession}

NoFile == [parts |-> <<"none">>, size |-> 0, image |-> FALSE]

\* the uploads tried: parts is the file name split at '.', image tells
\* whether PIL can open the bytes
Files ==
    {[parts |-> <<"scan", "v2", "PNG">>, size |-> MaxUploadBytes, image |-> TRUE],
     [parts |-> <<"scan", "png">>, size |-> 12 * 1024 * 1024, image |-> TRUE],
     [parts |-> <<"setup", "exe">>, size |-> 2048, image |-> TRUE],
     [parts |-> <<"notes", "jpg">>, size |-> 2048, image |-> FALSE]}

\* the uploads of /analyze-and-store: the files PIL opens for a named
\* patient, the others for an anonymous one
StoreInputs ==
    {[file |-> f, patient_id |-> IF f.image THEN "p1" ELSE None] : f \in Files}

\* the filters of the two list endpoints
ListInputs ==
    {[patient_id |-> None, page |-> [limit |-> 50, skip |-> 0]],
     [patient_id |-> "p1", page |-> [limit |-> 1, skip |-> 1]]}

\* the bodies of POST /chat, given the sessions the caller can name
ChatInputs(sessions) ==
    {[message |-> <<>>, patient_id |-> None, session_id |-> NoId],
     [message |-> <<SP, NL>>, patient_id |-> "p1", session_id |-> CallerSession],
     [message |-> <<W("hello"), SP, W("weather")>>, patient_id |-> None,
      session_id |-> NoId],
     [message |-> <<W("Headache"), SP, W("fever")>>, patient_id |-> None,
      session_id |-> NoId],
     [message |-> <<W("hello"), SP, W("weather")>>, patient_id |-> "p1",
      session_id |-> EmptySession]}
    \cup {[message |-> <<W("hello"), SP, W("weather")>>, patient_id |-> "p1",
           session_id |-> s] : s \in sessions}
    \cup {[message |-> <<W("research")>>, patient_id |-> "p1",
           session_id |-> s] : s \in sessions}

NoReq ==
    [ep |-> "none", file |-> NoFile, patient_id |-> None, message |-> <<>>,
     session_id |-> NoId, record_id |-> NoId, page |-> [limit |-> 0, skip |-> 0]]

NoLoc ==
    [replied |-> FALSE, reply |-> <<>>, analysis |-> Raised, image_url |-> NoId,
     ai_response |-> NoDict, session_id |-> NoId, failed |-> ""]

NoResp == [status |-> 0, detail |-> "", body |-> <<>>]

NoCalls == [ai |-> 0, store |-> 0, db |-> 0]

VARIABLES pc, req, loc, resp, calls, blocker, records, chat_history, cloud,
          nextId, arrivals

vars == <<pc, req, loc, resp, calls, blocker, records, chat_history, cloud,
          nextId, arrivals>>

Init ==
    /\ pc = [r \in Req |-> "idle"]
    /\ req = [r \in Req |-> NoReq]
    /\ loc = [r \in Req |-> NoLoc]
    /\ resp = [r \in Req |-> NoResp]
    /\ calls = [r \in Req |-> NoCalls]
    /\ blocker = NoSlot
    /\ records = {}
    /\ chat_history = {}
    /\ cloud = {}
    /\ nextId = 1
    /\ arrivals = 0

\* the event loop can start or resume a coroutine
LoopFree == blocker = NoSlot

\* a request comes in and the loop starts its handler
Accept(r, request) ==
    /\ pc[r] = "idle"
    /\ LoopFree
    /\ arrivals < MaxRequests
    /\ arrivals' = arrivals + 1
    /\ req' = [req EXCEPT ![r] = request]

\* the handler returns or raises HTTPException
Finish(r, status, detail, body) ==
    /\ pc' = [pc EXCEPT ![r] = "done"]
    /\ resp' = [resp EXCEPT ![r] = [status |-> status, detail |-> detail, body |-> body]]

\* the handler reaches an await or a blocking call
Goto(r, label) ==
    /\ pc' = [pc EXCEPT ![r] = label]
    /\ resp' = resp

\* one more invocation of a collaborator by request r
Called(r, who) ==
    [calls EXCEPT ![r] =
        [ai |-> @.ai + (IF who = "ai" THEN 1 ELSE 0),
         store |-> @.store + (IF who = "store" THEN 1 ELSE 0),
         db |-> @.db + (IF who = "db" THEN 1 ELSE 0)]]

\* the collection sorted by created_at, newest first
RECURSIVE NewestFirst(_)
NewestFirst(docs) ==
    IF docs = {} THEN <<>>
    ELSE LET d == CHOOSE x \in docs : \A y \in docs : y.created_at <= x.created_at
         IN  <<d>> \o NewestFirst(docs \ {d})

\* cursor.skip(skip).limit(limit)
Page(list, page) ==
    SubSeq(list, page.skip + 1,
           IF page.skip + page.limit < Len(list) THEN page.skip + page.limit
           ELSE Len(list))

(***************************************************************************)
(* GET / and GET /health                                                   *)
(***************************************************************************)
root(r) ==
    /\ Accept(r, [NoReq EXCEPT !.ep = "root"])
    /\ Finish(r, 200, "", Str("Medical Image Analysis API"))
    /\ UNCHANGED <<loc, calls, blocker, records, chat_history, cloud, nextId>>

health_check(r) ==
    /\ Accept(r, [NoReq EXCEPT !.ep = "health"])
    /\ Finish(r, 200, "", Str("healthy"))
    /\ UNCHANGED <<loc, calls, blocker, records, chat_history, cloud, nextId>>

(***************************************************************************)
(* POST /analyze and POST /analyze-and-store                               *)
(***************************************************************************)
\* The handler up to model.generate_content: the extension check, the size
\* check, Image.open, then the blocking call, which keeps the event loop.
StartAnalysis(r, request) ==
    /\ Accept(r, request)
    /\ IF UploadError(request.file) # ""
       THEN /\ Finish(r, 400, UploadError(request.file), <<>>)
            /\ UNCHANGED <<calls, blocker>>
       ELSE IF ~request.file.image
       THEN /\ Finish(r, 500, "Error analyzing image", <<>>)
            /\ UNCHANGED <<calls, blocker>>
       ELSE /\ Goto(r, "model_call")
            /\ calls' = Called(r, "ai")
            /\ blocker' = r
    /\ UNCHANGED <<loc, records, chat_history, cloud, nextId>>

analyze_image(r, file) ==
    StartAnalysis(r, [NoReq EXCEPT !.ep = "analyze", !.file = file])

analyze_and_store_image(r, file, patient_id) ==
    StartAnalysis(r, [NoReq EXCEPT !.ep = "analyze_store", !.file = file,
                                   !.patient_id = patient_id])

\* the upload started whatever the analysis did
UploadsAfterAlways(analysis) == TRUE

\* line 524 onwards: whether /analyze-and-store goes on to the upload
UploadsAfter(analysis) == analysis.ok

\* model.generate_content raises
model_call_raises(r) ==
    /\ pc[r] = "model_call" /\ blocker = r
    /\ Finish(r, 500, "Error analyzing image", <<>>)
    /\ loc' = [loc EXCEPT ![r].failed = "ai"]
    /\ blocker' = NoSlot
    /\ UNCHANGED <<req, calls, records, chat_history, cloud, nextId, arrivals>>

\* model.generate_content returns response_text; the rest of
\* analyze_medical_image and the handler run on without an await until the
\* response (/analyze) or the blocking upload (/analyze-and-store)
model_call_returns(r, response_text) ==
    /\ pc[r] = "model_call" /\ blocker = r
    /\ LET analysis == AnalysisOf(response_text)
       IN  /\ loc' = [loc EXCEPT ![r].replied = TRUE, ![r].reply = response_text,
                                 ![r].analysis = analysis]
           /\ IF req[r].ep = "analyze"
              THEN /\ IF ~analysis.ok
                      THEN Finish(r, 500, "Error analyzing image", <<>>)
                      ELSE IF ValidDiagnosis(analysis.rec)
                      THEN Finish(r, 200, "", analysis.rec)
                      ELSE Finish(r, 500, "Error processing image", <<>>)
                   /\ blocker' = NoSlot
                   /\ calls' = calls
              ELSE IF UploadsAfter(analysis)
              THEN /\ Goto(r, "upload_call")
                   /\ calls' = Called(r, "store")
                   /\ blocker' = r
              ELSE /\ Finish(r, 500, "Error analyzing image", <<>>)
                   /\ blocker' = NoSlot
                   /\ calls' = calls
    /\ UNCHANGED <<req, records, chat_history, cloud, nextId, arrivals>>

\* cloudinary.uploader.upload raises
upload_raises(r) ==
    /\ pc[r] = "upload_call" /\ blocker = r
    /\ Finish(r, 500, "Error uploading to Cloudinary", <<>>)
    /\ loc' = [loc EXCEPT ![r].failed = "store"]
    /\ blocker' = NoSlot
    /\ UNCHANGED <<req, calls, records, chat_history, cloud, nextId, arrivals>>

\* cloudinary.uploader.upload returns secure_url; save_to_mongodb builds the
\* document and awaits insert_one
upload_returns(r) ==
    /\ pc[r] = "upload_call" /\ blocker = r
    /\ cloud' = cloud \cup {nextId}
    /\ loc' = [loc EXCEPT ![r].image_url = nextId]
    /\ nextId' = nextId + 1
    /\ Goto(r, "insert_record")
    /\ calls' = Called(r, "db")
    /\ blocker' = NoSlot
    /\ UNCHANGED <<req, records, chat_history, arrivals>>

\* lines 395-405
RecordDocument(id, image_url, analysis_result, patient_id) ==
    [_id |-> id,
     patient_id |-> patient_id,
     image_url |-> image_url,
     diagnosis_english |-> analysis_result.diagnosis_english,
     diagnosis_arabic |-> analysis_result.diagnosis_arabic,
     confidence_score |-> analysis_result.confidence_score,
     findings |-> analysis_result.findings,
     recommendations |-> analysis_result.recommendations,
     image_type |-> analysis_result.image_type,
     created_at |-> id]

\* records_collection.insert_one raises
insert_record_raises(r) ==
    /\ pc[r] = "insert_record" /\ LoopFree
    /\ Finish(r, 500, "Error saving to MongoDB", <<>>)
    /\ loc' = [loc EXCEPT ![r].failed = "db"]
    /\ UNCHANGED <<req, calls, blocker, records, chat_history, cloud, nextId, arrivals>>

\* records_collection.insert_one returns; StoredDiagnosisResponse(...)
insert_record_returns(r) ==
    /\ pc[r] = "insert_record" /\ LoopFree
    /\ LET doc == RecordDocument(nextId, loc[r].image_url, loc[r].analysis.rec,
                                 req[r].patient_id)
       IN  /\ records' = records \cup {doc}
           /\ IF ValidDiagnosis(loc[r].analysis.rec)
              THEN Finish(r, 200, "", doc)
              ELSE Finish(r, 500, "Error processing request", <<>>)
    /\ nextId' = nextId + 1
    /\ UNCHANGED <<req, loc, calls, blocker, chat_history, cloud, arrivals>>

(***************************************************************************)
(* GET /records, GET /records/{id}, DELETE /records/{id}                   *)
(***************************************************************************)
\* the ids a caller names: a malformed one, a well-formed one no record
\* has, and those of the records
RecordIds == {BadId, nextId} \cup {d._id : d \in records}

get_all_records(r, patient_id, page) ==
    /\ Accept(r, [NoReq EXCEPT !.ep = "get_all_records", !.patient_id = patient_id,
                               !.page = page])
    /\ Goto(r, "find_records")
    /\ calls' = Called(r, "db")
    /\ UNCHANGED <<loc, blocker, records, chat_history, cloud, nextId>>

\* 'if patient_id:' adds the filter
MatchesPatient(doc, patient_id) == patient_id = None \/ doc.patient_id = patient_id

\* cursor.to_list returns (ok) or raises; the response model validates the list
find_records_returns(r, ok) ==
    /\ pc[r] = "find_records" /\ LoopFree
    /\ LET found == Page(NewestFirst({d \in records : MatchesPatient(d, req[r].patient_id)}),
                         req[r].page)
       IN  IF ~ok THEN Finish(r, 500, "Error fetching records", <<>>)
           ELSE IF \A i \in 1..Len(found) : ValidDiagnosis(found[i])
           THEN Finish(r, 200, "", found)
           ELSE Finish(r, 500, "response validation", <<>>)
    /\ loc' = [loc EXCEPT ![r].failed = IF ok THEN "" ELSE "db"]
    /\ UNCHANGED <<req, calls, blocker, records, chat_history, cloud, nextId, arrivals>>

\* lines 591-601 and 614-623: 'except Exception' also catches the
\* HTTPException(404) raised inside the try block, and raises 500 in its place
NotFoundStatus == 500

\* ObjectId(record_id) raises InvalidId before the collection is reached
StartById(r, request, label) ==
    /\ Accept(r, request)
    /\ IF request.record_id = BadId
       THEN /\ Finish(r, 500, "invalid ObjectId", <<>>)
            /\ calls' = calls
       ELSE /\ Goto(r, label)
            /\ calls' = Called(r, "db")
    /\ UNCHANGED <<loc, blocker, records, chat_history, cloud, nextId>>

get_record_by_id(r, record_id) ==
    StartById(r, [NoReq EXCEPT !.ep = "get_record_by_id", !.record_id = record_id],
              "find_one")

find_one_returns(r, ok) ==
    /\ pc[r] = "find_one" /\ LoopFree
    /\ LET found == {d \in records : d._id = req[r].record_id}
       IN  IF ~ok THEN Finish(r, 500, "Error fetching record", <<>>)
           ELSE IF found = {} THEN Finish(r, NotFoundStatus, "Record not found", <<>>)
           ELSE LET record == CHOOSE d \in found : TRUE
                IN  IF ValidDiagnosis(record) THEN Finish(r, 200, "", record)
                    ELSE Finish(r, 500, "response validation", <<>>)
    /\ loc' = [loc EXCEPT ![r].failed = IF ok THEN "" ELSE "db"]
    /\ UNCHANGED <<req, calls, blocker, records, chat_history, cloud, nextId, arrivals>>

delete_record(r, record_id) ==
    StartById(r, [NoReq EXCEPT !.ep = "delete_record", !.record_id = record_id],
              "delete_one")

\* a deletion that keeps the document and marks it
delete_one_soft(docs, id) ==
    {IF d._id = id THEN [d EXCEPT !.patient_id = "deleted"] ELSE d : d \in docs}

\* records_collection.delete_one({"_id": ObjectId(record_id)})
delete_one(docs, id) == {d \in docs : d._id # id}

delete_one_returns(r, ok) ==
    /\ pc[r] = "delete_one" /\ LoopFree
    /\ LET found == {d \in records : d._id = req[r].record_id}
       IN  IF ~ok
           THEN /\ Finish(r, 500, "Error deleting record", <<>>)
                /\ records' = records
           ELSE IF found = {}
           THEN /\ Finish(r, NotFoundStatus, "Record not found", <<>>)
                /\ records' = records
           ELSE /\ Finish(r, 200, "Record deleted successfully", <<>>)
                /\ records' = delete_one(records, req[r].record_id)
    /\ loc' = [loc EXCEPT ![r].failed = IF ok THEN "" ELSE "db"]
    /\ UNCHANGED <<req, calls, blocker, chat_history, cloud, nextId, arrivals>>

(***************************************************************************)
(* POST /chat, GET /chat/history, DELETE /chat/history/{session_id}        *)
(***************************************************************************)
\* the document with a session generated for every exchange
ChatDocumentFreshSession(id, user_message, ai_response, patient_id, session_id) ==
    [_id |-> id,
     patient_id |-> patient_id,
     session_id |-> id,
     user_message |-> user_message,
     ai_response_english |-> ai_response["response_english"],
     ai_response_arabic |-> ai_response["response_arabic"],
     is_medical |-> ai_response["is_medical"],
     confidence_score |-> ai_response["confidence_score"],
     created_at |-> id]

\* lines 251-260
ChatDocument(id, user_message, ai_response, patient_id, session_id) ==
    [_id |-> id,
     patient_id |-> patient_id,
     session_id |-> session_id,
     user_message |-> user_message,
     ai_response_english |-> ai_response["response_english"],
     ai_response_arabic |-> ai_response["response_arabic"],
     is_medical |-> ai_response["is_medical"],
     confidence_score |-> ai_response["confidence_score"],
     created_at |-> id]

\* save_chat_history up to its await: a missing key of ai_response raises
\* KeyError, reported as 500; 'if not session_id' draws str(ObjectId())
SaveChat(r, from, ai_response, session_id) ==
    IF ~(ChatKeys \subseteq DOMAIN ai_response)
    THEN /\ Finish(r, 500, "Error saving chat history", <<>>)
         /\ loc' = [loc EXCEPT ![r] = [from EXCEPT !.ai_response = ai_response]]
         /\ UNCHANGED <<calls, nextId>>
    ELSE /\ Goto(r, "insert_chat")
         /\ calls' = Called(r, "db")
         /\ loc' = [loc EXCEPT ![r] = [from EXCEPT
                               !.ai_response = ai_response,
                               !.session_id =
                                   IF NotSession(session_id) THEN nextId
                                   ELSE session_id]]
         /\ nextId' = IF NotSession(session_id) THEN nextId + 1 ELSE nextId

medical_chat(r, message, patient_id, session_id) ==
    /\ Accept(r, [NoReq EXCEPT !.ep = "chat", !.message = message,
                               !.patient_id = patient_id, !.session_id = session_id])
    /\ IF IsBlank(message)
       THEN /\ Finish(r, 400, "Message cannot be empty", <<>>)
            /\ UNCHANGED <<loc, calls, blocker, nextId>>
       ELSE IF ShortCircuits(message)
       THEN /\ SaveChat(r, loc[r], Refusal, session_id)
            /\ blocker' = blocker
       ELSE /\ Goto(r, "chat_call")
            /\ calls' = Called(r, "ai")
            /\ blocker' = r
            /\ UNCHANGED <<loc, nextId>>
    /\ UNCHANGED <<records, chat_history, cloud>>

\* chat_model.generate_content raises
chat_call_raises(r) ==
    /\ pc[r] = "chat_call" /\ blocker = r
    /\ Finish(r, 500, "Error generating chat response", <<>>)
    /\ loc' = [loc EXCEPT ![r].failed = "ai"]
    /\ blocker' = NoSlot
    /\ UNCHANGED <<req, calls, records, chat_history, cloud, nextId, arrivals>>

\* chat_model.generate_content returns response_text
chat_call_returns(r, response_text) ==
    /\ pc[r] = "chat_call" /\ blocker = r
    /\ SaveChat(r, [loc[r] EXCEPT !.replied = TRUE, !.reply = response_text],
                ChatResponseOf(response_text), req[r].session_id)
    /\ blocker' = NoSlot
    /\ UNCHANGED <<req, records, chat_history, cloud, arrivals>>

insert_chat_raises(r) ==
    /\ pc[r] = "insert_chat" /\ LoopFree
    /\ Finish(r, 500, "Error saving chat history", <<>>)
    /\ loc' = [loc EXCEPT ![r].failed = "db"]
    /\ UNCHANGED <<req, calls, blocker, records, chat_history, cloud, nextId, arrivals>>

\* chat_history_collection.insert_one returns; ChatResponse(...)
insert_chat_returns(r) ==
    /\ pc[r] = "insert_chat" /\ LoopFree
    /\ chat_history' = chat_history \cup
           {ChatDocument(nextId, req[r].message, loc[r].ai_response,
                         req[r].patient_id, loc[r].session_id)}
    /\ nextId' = nextId + 1
    /\ IF ValidChat(loc[r].ai_response)
       THEN Finish(r, 200, "",
                   [response_english |-> loc[r].ai_response["response_english"],
                    response_arabic |-> loc[r].ai_response["response_arabic"],
                    session_id |-> loc[r].session_id,
                    is_medical |-> loc[r].ai_response["is_medical"],
                    confidence_score |-> loc[r].ai_response["confidence_score"]])
       ELSE Finish(r, 500, "Error in chat", <<>>)
    /\ UNCHANGED <<req, loc, calls, blocker, records, cloud, arrivals>>

\* the sessions a caller can name: one made up, and those it was given
SessionsKnown == {CallerSession} \cup {d.session_id : d \in chat_history}

\* the filters of GET /chat/history
HistoryInputs(sessions) ==
    {[session_id |-> NoId, patient_id |-> None, page |-> [limit |-> 50, skip |-> 0]]}
    \cup {[session_id |-> s, patient_id |-> "p1", page |-> [limit |-> 1, skip |-> 1]] :
           s \in sessions}

get_chat_history(r, session_id, patient_id, page) ==
    /\ Accept(r, [NoReq EXCEPT !.ep = "get_chat_history", !.session_id = session_id,
                               !.patient_id = patient_id, !.page = page])
    /\ Goto(r, "find_chat")
    /\ calls' = Called(r, "db")
    /\ UNCHANGED <<loc, blocker, records, chat_history, cloud, nextId>>

find_chat_returns(r, ok) ==
    /\ pc[r] = "find_chat" /\ LoopFree
    /\ LET found == Page(NewestFirst({d \in chat_history :
                                 /\ MatchesPatient(d, req[r].patient_id)
                                 /\ (NotSession(req[r].session_id)
                                     \/ d.session_id = req[r].session_id)}),
                         req[r].page)
       IN  IF ~ok THEN Finish(r, 500, "Error fetching chat history", <<>>)
           ELSE IF \A i \in 1..Len(found) : ValidExchange(found[i])
           THEN Finish(r, 200, "", found)
           ELSE Finish(r, 500, "response validation", <<>>)
    /\ loc' = [loc EXCEPT ![r].failed = IF ok THEN "" ELSE "db"]
    /\ UNCHANGED <<req, calls, blocker, records, chat_history, cloud, nextId, arrivals>>

delete_chat_session(r, session_id) ==
    /\ Accept(r, [NoReq EXCEPT !.ep = "delete_chat_session", !.session_id = session_id])
    /\ Goto(r, "delete_many")
    /\ calls' = Called(r, "db")
    /\ UNCHANGED <<loc, blocker, records, chat_history, cloud, nextId>>

\* delete_many returns deleted_count, whatever it is, with status 200
delete_many_returns(r, ok) ==
    /\ pc[r] = "delete_many" /\ LoopFree
    /\ LET found == {d \in chat_history : d.session_id = req[r].session_id}
       IN  IF ~ok
           THEN /\ Finish(r, 500, "Error deleting chat session", <<>>)
                /\ chat_history' = chat_history
           ELSE /\ Finish(r, 200, "Chat session deleted successfully",
                          [deleted_count |-> Cardinality(found)])
                /\ chat_history' = chat_history \ found
    /\ loc' = [loc EXCEPT ![r].failed = IF ok THEN "" ELSE "db"]
    /\ UNCHANGED <<req, calls, blocker, records, cloud, nextId, arrivals>>

\* the response is sent; the slot is free for the next request
Respond(r) ==
    /\ pc[r] = "done" /\ LoopFree
    /\ pc' = [pc EXCEPT ![r] = "idle"]
    /\ req' = [req EXCEPT ![r] = NoReq]
    /\ loc' = [loc EXCEPT ![r] = NoLoc]
    /\ resp' = [resp EXCEPT ![r] = NoResp]
    /\ calls' = [calls EXCEPT ![r] = NoCalls]
    /\ UNCHANGED <<blocker, records, chat_history, cloud, nextId, arrivals>>

(***************************************************************************)
(* The replies of the generative model                                     *)
(***************************************************************************)
GoodObject ==
    <<F("image_type", Str("X-ray")), F("diagnosis_english", Str("No acute findings")),
      F("diagnosis_arabic", Str("ar_diagnosis")), F("confidence_score", Num(85 * Unit)),
      F("findings", List(<<Str("Clear lungs")>>)), F("recommendations", Str("Follow up"))>>

\* replies to the image prompt seen by the whole server
ImageReplies ==
    {<<W("Result"), NL, LB>> \o GoodObject \o <<RB>>,
     <<W("blah"), SP, LB, F("confidence_score", Num(150 * Unit)),
       F("diagnosis_english", Str("ok")), RB, SP, W("blah")>>,
     <<LB, F("confidence_score", Str("high")), RB>>,
     <<LB, F("findings", Null), RB>>,
     <<W("Image"), SP, W("SHOWS"), NL, W("ar_word"), NL, W("Confidence"), COLON,
       SP, INT(250), PCT>>}

\* replies to the chat prompt
ChatReplies ==
    {<<LB, F("response_english", Str("Rest and fluids")), F("response_arabic", Str("ar_answer")),
       F("is_medical", Bool(TRUE)), F("confidence_score", Num(85 * Unit)), RB>>,
     <<LB, F("response_english", Str("Rest and fluids")), RB>>,
     <<LB, F("response_english", Null), F("response_arabic", Str("ar_answer")),
       F("is_medical", Bool(TRUE)), F("confidence_score", Num(85 * Unit)), RB>>,
     <<W("Drink"), SP, W("water"), SP, LB, W("see a doctor"), RB>>}

\* every step the event loop can take for request r
Handle(r) ==
        \/ root(r)
        \/ health_check(r)
        \/ \E file \in Files : analyze_image(r, file)
        \/ \E u \in StoreInputs : analyze_and_store_image(r, u.file, u.patient_id)
        \/ model_call_raises(r)
        \/ \E response_text \in ImageReplies : model_call_returns(r, response_text)
        \/ upload_raises(r)
        \/ upload_returns(r)
        \/ insert_record_raises(r)
        \/ insert_record_returns(r)
        \/ \E q \in ListInputs : get_all_records(r, q.patient_id, q.page)
        \/ \E ok \in BOOLEAN : find_records_returns(r, ok)
        \/ \E record_id \in RecordIds : get_record_by_id(r, record_id)
        \/ \E ok \in BOOLEAN : find_one_returns(r, ok)
        \/ \E record_id \in RecordIds : delete_record(r, record_id)
        \/ \E ok \in BOOLEAN : delete_one_returns(r, ok)
        \/ \E c \in ChatInputs(SessionsKnown) :
               medical_chat(r, c.message, c.patient_id, c.session_id)
        \/ chat_call_raises(r)
        \/ \E response_text \in ChatReplies : chat_call_returns(r, response_text)
        \/ insert_chat_raises(r)
        \/ insert_chat_returns(r)
        \/ \E q \in HistoryInputs(SessionsKnown) :
               get_chat_history(r, q.session_id, q.patient_id, q.page)
        \/ \E ok \in BOOLEAN : find_chat_returns(r, ok)
        \/ \E session_id \in SessionsKnown : delete_chat_session(r, session_id)
        \/ \E ok \in BOOLEAN : delete_many_returns(r, ok)
        \/ Respond(r)

Next == \E r \in Req : Handle(r)

Spec == Init /\ [][Next]_vars

(***************************************************************************)
(* analyze_medical_image over a wide family of replies: one request at a   *)
(* time on POST /analyze, the reply made of a prefix, an optional JSON     *)
(* object and a suffix, or of up to MaxLines lines of prose.               *)
(***************************************************************************)
MaxLines == 3

Absent == Val("absent", "", 0, <<>>, <<>>)

\* the objects the model may write: each member left out, well typed, or
\* of another type
Objects ==
    [image_type : {Absent, Str("X-ray")},
     diagnosis_english : {Absent, Str("No acute findings")},
     diagnosis_arabic : {Absent, Str("ar_diagnosis"), Null},
     confidence_score : {Absent, Num(Unit \div 2), Num(Unit), Num(85 * Unit),
                         Num(150 * Unit), Num((0 - 5) * Unit), Str("high"), Null},
     findings : {Absent, List(<<Str("Clear lungs")>>), Null},
     recommendations : {Absent, Str("Follow up"), Null}]

IsPresent(tok) == tok.v.t # "absent"

ObjectTokens(o) ==
    <<LB>> \o SelectSeq(<<F("image_type", o.image_type),
                          F("diagnosis_english", o.diagnosis_english),
                          F("diagnosis_arabic", o.diagnosis_arabic),
                          F("confidence_score", o.confidence_score),
                          F("findings", o.findings),
                          F("recommendations", o.recommendations)>>, IsPresent)
           \o <<RB>>

Prefixes == {<<>>, <<W("Result"), NL>>, <<W("ar_word"), SP, W("Image"), NL>>}

Suffixes ==
    {<<>>,
     <<NL, W("Confidence"), COLON, SP, INT(95), PCT>>,
     <<SP, RB>>,
     <<NL, W("see"), SP, LB, W("notes"), RB>>}

JsonReplies ==
    {pre \o ObjectTokens(o) \o post : pre \in Prefixes, o \in Objects, post \in Suffixes}

ProseLines ==
    {<<W("Normal"), SP, W("chest")>>,
     <<SP, W("Image"), SP, W("SHOWS"), SP>>,
     <<W("ar_word")>>,
     <<SP>>,
     <<W("Confidence"), COLON, SP, INT(250), PCT>>,
     <<INT(90), PCT, SP, W("confident")>>,
     <<INT(60), PCT, W("confident")>>,
     <<W("Score"), COLON, INT(40)>>,
     <<LB, W("truncated")>>}

RECURSIVE JoinLines(_)
JoinLines(lines) ==
    IF Len(lines) = 0 THEN <<>>
    ELSE IF Len(lines) = 1 THEN lines[1]
    ELSE lines[1] \o <<NL>> \o JoinLines(Tail(lines))

ProseReplies ==
    {JoinLines(ls) : ls \in UNION {[1..n -> ProseLines] : n \in 0..MaxLines}}

RichReplies == JsonReplies \cup ProseReplies

UploadedFile == [parts |-> <<"scan", "v2", "PNG">>, size |-> MaxUploadBytes, image |-> TRUE]

NextAnalyze ==
    \/ analyze_image("a", UploadedFile)
    \/ model_call_raises("a")
    \/ /\ pc["a"] = "model_call"
       /\ \E response_text \in RichReplies : model_call_returns("a", response_text)
    \/ Respond("a")

SpecAnalyze == Init /\ [][NextAnalyze]_vars

(***************************************************************************)
(* Properties                                                              *)
(***************************************************************************)
IsChat(r) == req[r].ep = "chat"

IsUpload(r) == req[r].ep \in {"analyze", "analyze_store"}

\* C1: a /chat request with a non-empty message for which is_medical_question
\* is false gets the fixed refusal (is_medical false, confidence 100) from
\* generate_medical_chat_response, and the generative model is called zero
\* times during the request.
C1_NonMedicalGetsRefusalWithoutModelCall ==
    \A r \in Req :
        (IsChat(r) /\ ~IsBlank(req[r].message) /\ ~is_medical_question(req[r].message))
        => /\ calls[r].ai = 0
           /\ pc[r] # "chat_call"
           /\ DOMAIN loc[r].ai_response = ChatKeys
           /\ loc[r].ai_response = Refusal
           /\ loc[r].ai_response["is_medical"] = Bool(FALSE)
           /\ loc[r].ai_response["confidence_score"] = Num(100 * Unit)

C1_Witness ==
    \E r \in Req :
        /\ IsChat(r) /\ ~IsBlank(req[r].message) /\ ~is_medical_question(req[r].message)
        /\ pc[r] = "done" /\ resp[r].status = 200
        /\ resp[r].body.is_medical = Bool(FALSE)
        /\ calls[r].ai = 0

FailsValidation(request) ==
    \/ /\ request.ep \in {"analyze", "analyze_store"}
       /\ \/ file_extension(request.file)
               \notin {"jpg", "jpeg", "png", "gif", "bmp", "tiff", "webp"}
          \/ request.file.size > 10 * 1024 * 1024
    \/ /\ request.ep = "chat"
       /\ \A i \in 1..Len(request.message) : request.message[i].k \in {"sp", "nl"}

\* C2: in /analyze, /analyze-and-store and /chat a request that fails
\* validation (extension outside the allowed set, more than 10MB, an empty or
\* blank message) ends with status 400, and neither the generative model nor
\* the object store nor the database is invoked for it.
C2_ValidationFailureIs400WithoutCollaborators ==
    \A r \in Req :
        FailsValidation(req[r])
        => /\ pc[r] = "done"
           /\ resp[r].status = 400
           /\ calls[r] = [ai |-> 0, store |-> 0, db |-> 0]

C2_Witness ==
    \E r \in Req :
        /\ req[r].ep = "analyze"
        /\ file_extension(req[r].file) = "png"
        /\ req[r].file.size > 10 * 1024 * 1024
        /\ pc[r] = "done"
        /\ resp[r].status = 400
        /\ resp[r].detail = "File size exceeds 10MB limit"

IsClientError(status) == status >= 400 /\ status < 500

\* C3: a request naming an unknown record id (GET or DELETE /records/{id}) or
\* an unknown session id (DELETE /chat/history/{session_id}) is answered with
\* a client error, never with a server error and never with success.  The id
\* is one no record was ever given; the session is one no exchange was
\* deleted for; the database calls themselves succeeded.
C3_UnknownIdIsClientError ==
    \A r \in Req :
        (pc[r] = "done" /\ loc[r].failed = "")
        => /\ (/\ req[r].ep \in {"get_record_by_id", "delete_record"}
               /\ req[r].record_id >= nextId)
              => IsClientError(resp[r].status)
           /\ (/\ req[r].ep = "delete_chat_session"
               /\ \A d \in chat_history : d.session_id # req[r].session_id
               /\ (resp[r].status = 200 => resp[r].body.deleted_count = 0))
              => IsClientError(resp[r].status)

\* C4: whenever the call of the generative model returns a text, whatever the
\* text, the /analyze or /chat request completes with a schema-conformant
\* record and is not reported as a failure (no other collaborator failed).
C4_AnyReplyTextGivesARecord ==
    \A r \in Req :
        (/\ pc[r] = "done" /\ req[r].ep \in {"analyze", "chat"}
         /\ loc[r].replied /\ loc[r].failed = "")
        => resp[r].status = 200

\* C5: /analyze-and-store runs analysis, upload, insert in this order; a step
\* starts only after the previous one succeeded; a failure ends the request
\* with an error, runs no later step and undoes no earlier one (after a
\* failed insert the uploaded image is still in the store, without a row).
C5_AnalyzeUploadInsertInSequence ==
    \A r \in Req :
        req[r].ep = "analyze_store"
        => /\ calls[r].store <= 1 /\ calls[r].db <= 1 /\ calls[r].ai <= 1
           /\ calls[r].store = 1
              => calls[r].ai = 1 /\ loc[r].replied /\ loc[r].analysis.ok
           /\ calls[r].db = 1
              => calls[r].store = 1 /\ loc[r].image_url \in cloud
           /\ (pc[r] = "done" /\ loc[r].failed = "ai")
              => resp[r].status = 500 /\ calls[r].store = 0 /\ calls[r].db = 0
           /\ (pc[r] = "done" /\ loc[r].replied /\ ~loc[r].analysis.ok)
              => resp[r].status = 500 /\ calls[r].store = 0 /\ calls[r].db = 0
           /\ (pc[r] = "done" /\ loc[r].failed = "store")
              => resp[r].status = 500 /\ calls[r].db = 0
           /\ (pc[r] = "done" /\ loc[r].failed = "db")
              => /\ resp[r].status = 500
                 /\ loc[r].image_url \in cloud
                 /\ \A d \in records : d.image_url # loc[r].image_url

C5_Witness ==
    \E r \in Req :
        /\ req[r].ep = "analyze_store" /\ pc[r] = "done"
        /\ loc[r].failed = "db" /\ resp[r].status = 500
        /\ loc[r].image_url \in cloud
        /\ \A d \in records : d.image_url # loc[r].image_url

\* C6: while a call of the generative model made by one request has not
\* returned, every other request in flight (its handler started and not yet
\* finished) can still take its next step.
C6_SlowCallBlocksOnlyItsOwnRequest ==
    \A r \in Req, q \in Req :
        (q # r /\ pc[r] \in {"model_call", "chat_call"} /\ pc[q] \notin {"idle", "done"})
        => ENABLED Handle(q)

\* C7: no operation changes a field of an existing diagnosis record or chat
\* exchange: across every step a document that keeps its id keeps all its
\* values, and no two documents of a collection share an id.
C7_StoredDocumentsNeverChange ==
    [][/\ \A d \in records, e \in records' : e._id = d._id => e = d
       /\ \A d \in chat_history, e \in chat_history' : e._id = d._id => e = d
       /\ \A d \in records', e \in records' : e._id = d._id => e = d
       /\ \A d \in chat_history', e \in chat_history' : e._id = d._id => e = d]_vars

C7_Witness ==
    \E r \in Req :
        /\ pc[r] = "done" /\ req[r].ep = "get_record_by_id" /\ resp[r].status = 200
        /\ resp[r].body \in records
        /\ resp[r].body._id = req[r].record_id

\* C8: every record analyze_medical_image returns, on the structured path
\* and on the fallback path, has 0.0 <= confidence_score <= 1.0.
C8_ConfidenceWithinUnitInterval ==
    \A r \in Req :
        (IsUpload(r) /\ loc[r].replied /\ loc[r].analysis.ok
         /\ loc[r].analysis.rec.confidence_score.t = "num")
        => /\ loc[r].analysis.rec.confidence_score.n >= 0
           /\ loc[r].analysis.rec.confidence_score.n <= Unit

SixKeys ==
    {"image_type", "diagnosis_english", "diagnosis_arabic", "confidence_score",
     "findings", "recommendations"}

\* what the claim of verbatim fields says of a returned record rec and a
\* decoded object d holding all six fields
VerbatimWithScaledConfidence(rec, d) ==
    /\ rec.image_type = d["image_type"]
    /\ rec.diagnosis_english = d["diagnosis_english"]
    /\ rec.diagnosis_arabic = d["diagnosis_arabic"]
    /\ rec.findings = d["findings"]
    /\ rec.recommendations = d["recommendations"]
    /\ IF d["confidence_score"].t = "num" /\ d["confidence_score"].n > Unit
       THEN /\ rec.confidence_score.t = "num"
            /\ rec.confidence_score.n * 100 = d["confidence_score"].n
       ELSE rec.confidence_score = d["confidence_score"]

\* the JSON objects with all six fields, the confidence a number, that a
\* reply contains, brace to brace
ObjectsWithin(text) ==
    {json_loads(SubSeq(text, p[1], p[2])).d :
        p \in {p \in (1..Len(text)) \X (1..Len(text)) :
                 /\ p[1] < p[2]
                 /\ text[p[1]].k = "lbrace" /\ text[p[2]].k = "rbrace"
                 /\ json_loads(SubSeq(text, p[1], p[2])).ok
                 /\ SixKeys \subseteq DOMAIN json_loads(SubSeq(text, p[1], p[2])).d
                 /\ json_loads(SubSeq(text, p[1], p[2])).d["confidence_score"].t = "num"}}

\* C9 as stated: for every reply that contains a decodable JSON object with
\* all six fields, the record analyze_medical_image returns has the object's
\* fields verbatim, the confidence v/100 when v > 1 and v otherwise.
C9_AnyContainedObjectIsReturnedVerbatim ==
    \A r \in Req :
        (IsUpload(r) /\ loc[r].replied /\ loc[r].analysis.ok)
        => \A d \in ObjectsWithin(loc[r].reply) :
               VerbatimWithScaledConfidence(loc[r].analysis.rec, d)

\* C9 amended: for every reply whose span from the first '{' to the last '}'
\* decodes to a JSON object with all six fields, the record
\* analyze_medical_image returns has the object's fields verbatim, the
\* confidence v/100 (unclamped) when v > 1 and v otherwise.
C9_DecodedSpanIsReturnedVerbatim ==
    \A r \in Req :
        (/\ IsUpload(r) /\ loc[r].replied /\ loc[r].analysis.ok
         /\ BraceSpan(loc[r].reply) # <<>>
         /\ json_loads(BraceSpan(loc[r].reply)).ok
         /\ SixKeys \subseteq DOMAIN json_loads(BraceSpan(loc[r].reply)).d)
        => VerbatimWithScaledConfidence(loc[r].analysis.rec,
                                        json_loads(BraceSpan(loc[r].reply)).d)

C9_Witness ==
    \E r \in Req :
        /\ IsUpload(r) /\ loc[r].replied /\ loc[r].analysis.ok
        /\ BraceSpan(loc[r].reply) # <<>>
        /\ json_loads(BraceSpan(loc[r].reply)).ok
        /\ SixKeys \subseteq DOMAIN json_loads(BraceSpan(loc[r].reply)).d
        /\ json_loads(BraceSpan(loc[r].reply)).d["confidence_score"] = Num(150 * Unit)
        /\ loc[r].analysis.rec.confidence_score = Num(Unit + Unit \div 2)
        /\ loc[r].analysis.rec.image_type = Str("X-ray")
        /\ Len(loc[r].reply) > Len(BraceSpan(loc[r].reply))

NoArabicLine(text) ==
    \A i \in 1..Len(text) :
        ~(\/ text[i].k = "word" /\ text[i].w \in ArabicLiterals
          \/ text[i].k = "field" /\ text[i].v.t = "str" /\ text[i].v.s \in ArabicLiterals)

\* C10: for every reply with no JSON object (the brace span is absent or does
\* not decode) and no line with an Arabic code point, analyze_medical_image
\* returns the fixed Arabic placeholder as diagnosis_arabic and a findings
\* list with at least one element.
C10_NoJsonNoArabicGivesPlaceholder ==
    \A r \in Req :
        (/\ IsUpload(r) /\ loc[r].replied
         /\ ~(BraceSpan(loc[r].reply) # <<>> /\ json_loads(BraceSpan(loc[r].reply)).ok)
         /\ NoArabicLine(loc[r].reply))
        => /\ loc[r].analysis.ok
           /\ loc[r].analysis.rec.diagnosis_arabic = Str("ar_consult_specialist")
           /\ loc[r].analysis.rec.findings.t = "list"
           /\ Len(loc[r].analysis.rec.findings.l) >= 1

C10_Witness ==
    \E r \in Req :
        /\ IsUpload(r) /\ loc[r].replied /\ pc[r] = "done" /\ resp[r].status = 200
        /\ BraceSpan(loc[r].reply) = <<>>
        /\ NoArabicLine(loc[r].reply)
        /\ Len(loc[r].reply) > 0
        /\ loc[r].analysis.rec.diagnosis_arabic = Str("ar_consult_specialist")
        /\ loc[r].analysis.rec.findings = List(<<Str("Analysis completed")>>)

\* the reply carries no structured data: no brace span that decodes, or a
\* decoded object without members
TakesFallback(text) ==
    \/ BraceSpan(text) = <<>>
    \/ ~json_loads(BraceSpan(text)).ok
    \/ DOMAIN json_loads(BraceSpan(text)).d = {}

\* tokens i and j of text are separated by at least `least` tokens, all of
\* them of the given kinds
Gap(text, i, j, kinds, least) ==
    /\ j - i - 1 >= least
    /\ \A p \in (i + 1)..(j - 1) : text[p].k \in kinds

\* <<start, number>> of every match of confidence[:\s]+<digits>%
ConfidenceThenPercent(text) ==
    {m \in (1..Len(text)) \X (1..Len(text)) :
        /\ text[m[1]].k = "word" /\ LowerWord(text[m[1]].w) = "confidence"
        /\ Gap(text, m[1], m[2], {"colon", "sp", "nl"}, 1)
        /\ text[m[2]].k = "int"
        /\ m[2] < Len(text) /\ text[m[2] + 1].k = "pct"}

\* <<start, number>> of every match of <digits>% confiden, with at least
\* `least` white space between the sign and the word
PercentThenConfiden(text, least) ==
    {m \in (1..Len(text)) \X (1..Len(text)) :
        /\ m[1] = m[2]
        /\ text[m[1]].k = "int"
        /\ m[1] < Len(text) /\ text[m[1] + 1].k = "pct"
        /\ \E j \in (m[1] + 2)..Len(text) :
              /\ Gap(text, m[1] + 1, j, {"sp", "nl"}, least)
              /\ text[j].k = "word"
              /\ LowerWord(text[j].w) \in {"confidence", "confident"}}

\* <<start, number>> of every match of score[:\s]+<digits>
ScoreThenDigits(text) ==
    {m \in (1..Len(text)) \X (1..Len(text)) :
        /\ text[m[1]].k = "word" /\ LowerWord(text[m[1]].w) = "score"
        /\ Gap(text, m[1], m[2], {"colon", "sp", "nl"}, 1)
        /\ text[m[2]].k = "int"}

\* the number of the leftmost match
Leftmost(text, matches) ==
    text[(CHOOSE m \in matches : \A o \in matches : m[1] <= o[1])[2]].v.n

\* the confidence c (fixed point) is the claimed one for text: the integer of
\* the first pattern that matches, over 100, and 0.75 when none matches
IsClaimedConfidence(c, text, least) ==
    LET m1 == ConfidenceThenPercent(text)
        m2 == PercentThenConfiden(text, least)
        m3 == ScoreThenDigits(text)
    IN  IF m1 # {} THEN c * 100 = Leftmost(text, m1) * Unit
        ELSE IF m2 # {} THEN c * 100 = Leftmost(text, m2) * Unit
        ELSE IF m3 # {} THEN c * 100 = Leftmost(text, m3) * Unit
        ELSE c * 4 = 3 * Unit

\* C11 as stated: on the fallback path the confidence is the integer of the
\* first of confidence[:\s]+<digits>%, <digits>%\s*confiden, score[:\s]+<digits>
\* (in this priority, wherever they match in the lower-cased reply) divided
\* by 100, and 0.75 when none of the three matches.
C11_ConfidenceFromFirstPatternOptionalSpace ==
    \A r \in Req :
        (IsUpload(r) /\ loc[r].replied /\ TakesFallback(loc[r].reply))
        => /\ loc[r].analysis.ok
           /\ loc[r].analysis.rec.confidence_score.t = "num"
           /\ IsClaimedConfidence(loc[r].analysis.rec.confidence_score.n,
                                  loc[r].reply, 0)

\* C11 amended: the same with the second pattern <digits>%\s+confiden, at
\* least one white-space character between the per cent sign and the word.
C11_ConfidenceFromFirstPattern ==
    \A r \in Req :
        (IsUpload(r) /\ loc[r].replied /\ TakesFallback(loc[r].reply))
        => /\ loc[r].analysis.ok
           /\ loc[r].analysis.rec.confidence_score.t = "num"
           /\ IsClaimedConfidence(loc[r].analysis.rec.confidence_score.n,
                                  loc[r].reply, 1)

\* a reply without a match of the first pattern where 'score:40' comes
\* before '90% confident': the second pattern wins over the earlier match of
\* the third
C11_Witness ==
    \E r \in Req :
        /\ IsUpload(r) /\ loc[r].replied /\ TakesFallback(loc[r].reply)
        /\ pc[r] = "done" /\ resp[r].status = 200
        /\ ConfidenceThenPercent(loc[r].reply) = {}
        /\ \E m2 \in PercentThenConfiden(loc[r].reply, 1),
              m3 \in ScoreThenDigits(loc[r].reply) : m3[1] < m2[1]
        /\ loc[r].analysis.rec.confidence_score = Num((90 * Unit) \div 100)

\* request r returns successfully from /chat in this step
ChatReturns(r) ==
    /\ pc[r] # "done" /\ pc'[r] = "done"
    /\ req'[r].ep = "chat"
    /\ resp'[r].status = 200

\* a session no exchange, no caller and no other request holds
IsFreshSession(s, r) ==
    /\ s \notin {NoId, EmptySession, CallerSession, BadId}
    /\ \A d \in chat_history : d.session_id # s /\ d._id # s
    /\ \A q \in Req \ {r} : loc[q].session_id # s /\ req[q].session_id # s

\* this step appends exactly one exchange, of request r, and keeps the others;
\* its session is the response's; it is the caller's when supplied(s) holds
\* of the caller's session_id s, and a fresh one otherwise
AppendsOneExchange(r, supplied(_)) ==
    \E d \in chat_history' :
        /\ d \notin chat_history
        /\ chat_history' = chat_history \cup {d}
        /\ \A e \in chat_history : e._id # d._id
        /\ d.user_message = req'[r].message
        /\ d.session_id = resp'[r].body.session_id
        /\ IF supplied(req'[r].session_id)
           THEN d.session_id = req'[r].session_id
           ELSE IsFreshSession(d.session_id, r)

WasGiven(s) == s # NoId

WasGivenNonEmpty(s) == s # NoId /\ s # EmptySession

\* C12 as stated: every /chat request that returns successfully, the refusal
\* included, appends exactly one exchange to the chat history and leaves the
\* existing exchanges unchanged; the exchange and the response carry the same
\* session_id: the caller's when one was supplied, a fresh one when omitted.
C12_ChatAppendsOneExchangeInGivenSession ==
    [][\A r \in Req : ChatReturns(r) => AppendsOneExchange(r, WasGiven)]_vars

\* C12 amended: the same, the session_id being the caller's when a non-empty
\* one was supplied and a fresh one when it was omitted or is the empty
\* string.
C12_ChatAppendsOneExchange ==
    [][\A r \in Req : ChatReturns(r) => AppendsOneExchange(r, WasGivenNonEmpty)]_vars

\* both kinds of session were served: a refusal answered in a fresh session
\* is stored next to an exchange stored in the session its caller named
C12_Witness ==
    \E r \in Req :
        /\ pc[r] = "done" /\ req[r].ep = "chat" /\ resp[r].status = 200
        /\ req[r].session_id = NoId
        /\ resp[r].body.is_medical = Bool(FALSE)
        /\ \E d \in chat_history, e \in chat_history :
              /\ d.session_id = resp[r].body.session_id
              /\ d.user_message = req[r].message
              /\ e._id # d._id
              /\ e.session_id = CallerSession

IsNonBlank(line) == line # <<>>

IsArabicLine(line) == \E i \in 1..Len(line) : HasArabicChar(line[i])

IsEnglishLine(line) == line[1].k # "lbrace"

HasKeyword(line) == \E i \in 1..Len(line) : HasFindingKeyword(line[i])

\* the non-blank lines of a reply, stripped
NonBlankLines(text) ==
    LET lines == SplitLines(text)
    IN  SelectSeq([i \in 1..Len(lines) |-> Strip(lines[i])], IsNonBlank)

\* the index of the first Arabic-bearing line among them, 0 when none
FirstArabic(lines) ==
    LET ar == {i \in 1..Len(lines) : IsArabicLine(lines[i])}
    IN  IF ar = {} THEN 0 ELSE Min(ar)

ToText(line) == Text(line)

\* nothing after the first Arabic-bearing line reaches the English bucket or
\* the findings: both are made of the lines before it alone
EnglishFromLinesBefore(rec, text) ==
    LET lines  == NonBlankLines(text)
        before == SelectSeq(SubSeq(lines, 1, FirstArabic(lines) - 1), IsEnglishLine)
        found  == SelectSeq(before, HasKeyword)
    IN  /\ rec.diagnosis_english =
              IF before # <<>> THEN Text(Join(before)) ELSE Text(Prefix(text))
        /\ rec.findings =
              IF found # <<>> THEN List([i \in 1..Len(found) |-> ToText(found[i])])
              ELSE List(<<Str("Analysis completed")>>)

\* C13 as stated: on the fallback path, once the first Arabic-bearing line has
\* been seen every later non-blank line goes to the Arabic bucket whatever its
\* script, and none to the English bucket or to findings: diagnosis_arabic is
\* the space-joined sequence of all non-blank lines from the first
\* Arabic-bearing line onward.
C13_LaterLinesAllJoinArabic ==
    \A r \in Req :
        (/\ IsUpload(r) /\ loc[r].replied /\ TakesFallback(loc[r].reply)
         /\ FirstArabic(NonBlankLines(loc[r].reply)) # 0)
        => LET lines == NonBlankLines(loc[r].reply)
           IN  /\ loc[r].analysis.ok
               /\ loc[r].analysis.rec.diagnosis_arabic =
                      Text(Join(SubSeq(lines, FirstArabic(lines), Len(lines))))
               /\ EnglishFromLinesBefore(loc[r].analysis.rec, loc[r].reply)

\* C13 amended: once the first Arabic-bearing line has been seen, a later
\* non-blank line goes to the Arabic bucket when it bears an Arabic character
\* itself and is dropped otherwise, and none goes to the English bucket or to
\* findings: diagnosis_arabic is the space-joined sequence of the
\* Arabic-bearing lines of the reply.
C13_LaterArabicLinesJoinArabic ==
    \A r \in Req :
        (/\ IsUpload(r) /\ loc[r].replied /\ TakesFallback(loc[r].reply)
         /\ FirstArabic(NonBlankLines(loc[r].reply)) # 0)
        => LET lines == NonBlankLines(loc[r].reply)
           IN  /\ loc[r].analysis.ok
               /\ loc[r].analysis.rec.diagnosis_arabic =
                      Text(Join(SelectSeq(lines, IsArabicLine)))
               /\ EnglishFromLinesBefore(loc[r].analysis.rec, loc[r].reply)

\* an Arabic line, then a line in Latin script with a keyword, then an
\* Arabic line again: the Latin line is in no bucket
C13_Witness ==
    \E r \in Req :
        /\ IsUpload(r) /\ loc[r].replied /\ pc[r] = "done" /\ resp[r].status = 200
        /\ loc[r].reply = <<W("ar_word"), NL, SP, W("Image"), SP, W("SHOWS"), SP, NL,
                            W("ar_word")>>
        /\ loc[r].analysis.rec.diagnosis_arabic = Text(<<W("ar_word"), SP, W("ar_word")>>)
        /\ loc[r].analysis.rec.diagnosis_english = Text(loc[r].reply)
        /\ loc[r].analysis.rec.findings = List(<<Str("Analysis completed")>>)

\* what the structured path returns for key when the decoded object d lacks it
StructuredDefaults ==
    [image_type |-> Str("Medical Image"),
     diagnosis_english |-> Str("Analysis completed"),
     diagnosis_arabic |-> Str("ar_analysis_done"),
     confidence_score |-> Num((75 * Unit) \div 100),
     findings |-> List(<<Str("Image analyzed")>>),
     recommendations |-> Str("Consult a healthcare professional")]

\* rec is the structured path's record for d: a field of d as it is (the
\* confidence over 100 when above 1), an absent one by its default
IsStructuredRecord(rec, d) ==
    \A key \in SixKeys :
        rec[key] =
            IF key \notin DOMAIN d THEN StructuredDefaults[key]
            ELSE IF key = "confidence_score" /\ d[key].t = "num" /\ d[key].n > Unit
            THEN Num(d[key].n \div 100)
            ELSE d[key]

\* C14: analyze_medical_image enters the line-by-line fallback only when the
\* span from the first '{' to the last '}' is absent or does not decode;
\* whenever the span decodes to a JSON object, the object without fields
\* included, the structured path is taken and each absent field gets its
\* structured-path default.  (Objects whose confidence_score is not a number
\* are left aside.)
C14_DecodedObjectTakesStructuredPath ==
    \A r \in Req :
        (/\ IsUpload(r) /\ loc[r].replied
         /\ BraceSpan(loc[r].reply) # <<>>
         /\ json_loads(BraceSpan(loc[r].reply)).ok
         /\ LET d == json_loads(BraceSpan(loc[r].reply)).d
            IN  "confidence_score" \in DOMAIN d => d["confidence_score"].t = "num")
        => /\ loc[r].analysis.ok
           /\ IsStructuredRecord(loc[r].analysis.rec,
                                 json_loads(BraceSpan(loc[r].reply)).d)

====
